---- MODULE Spec2Model ----
(***************************************************************************)
(* Model of ray_lightning: the HorovodRayAccelerator worker-coordination   *)
(* protocol (ray_horovod.py) and the Ray Tune reporting callbacks          *)
(* (tune.py).  The driver ships the trainer to N remote workers, drains    *)
(* the relay queue while the worker tasks run, and loads the result found  *)
(* at position 0 of the collected results.                                 *)
(***************************************************************************)
EXTENDS Integers, Sequences, FiniteSets, TLC

\* ------------------------------------------------------------------ bounds
MaxHosts == 1        \* num_hosts ranges over 1..MaxHosts
MaxWorkers == 2      \* num_hosts * num_slots ranges over 1..MaxWorkers
MaxEpochs == 2       \* trainer.max_epochs ranges over 1..MaxEpochs
MaxMetricVal == 1    \* metric tensors hold values 0..MaxMetricVal
MaxListLen == 2      \* a "metrics" list names at most MaxListLen keys
MaxNumWorkers == 6   \* get_tune_ddp_resources: num_workers in 1..MaxNumWorkers
MaxCpusPerWorker == 5 \* and cpus_per_worker in 1..MaxCpusPerWorker

\* ------------------------------------------------------------- value space
\* Python's None for the integer-valued fields (best_model_path, root_gpu).
NoneVal == -1

\* Metric keys: the one BoringModel logs, and one no model logs.
MetricKeys == {"val_loss", "val_acc"}
\* Names a rename mapping reports under.
TuneKeys == {"loss", "mean_accuracy"}

\* A 0-dim tensor holding v, and tensor.item(), which reads the scalar out.
Tensor(v) == [data |-> v]
Item(t) == t.data

\* Python dicts are functions; d[k] = v assignment.
EmptyDict == [k \in {} |-> 0]
DictSet(d, k, v) == [x \in (DOMAIN d) \cup {k} |-> IF x = k THEN v ELSE d[x]]

\* The "metrics" constructor argument: None, a str, a list or a dict.
NoMetrics == [type |-> "none", keys |-> <<>>, map |-> EmptyDict]
StrMetrics(s) == [type |-> "str", keys |-> <<s>>, map |-> EmptyDict]
ListMetrics(l) == [type |-> "list", keys |-> l, map |-> EmptyDict]
DictMetrics(m) == [type |-> "dict", keys |-> <<>>, map |-> m]

\* TuneReportCallback.__init__: a str becomes a one-element list.
InitMetrics(metrics) ==
    IF metrics.type = "str" THEN ListMetrics(metrics.keys) ELSE metrics

\* Python truthiness of self._metrics: None, [] and {} are falsy.
Falsy(metrics) ==
    \/ metrics.type = "none"
    \/ metrics.type = "list" /\ metrics.keys = <<>>
    \/ metrics.type = "dict" /\ DOMAIN metrics.map = {}

\* Outcomes of _get_report_dict: None, a dict, or a raised KeyError.
ReportNone == [status |-> "none", dict |-> EmptyDict]
ReportError == [status |-> "error", dict |-> EmptyDict]
ReportOk(d) == [status |-> "ok", dict |-> d]

\* The loop "for key in self._metrics" over a list, from position i on.
\* The loop passing over a key that was not logged.
RECURSIVE ListLoopSkipMissing(_, _, _, _)
ListLoopSkipMissing(keys, i, cm, acc) ==
    IF i > Len(keys) THEN ReportOk(acc)
    ELSE IF keys[i] \notin DOMAIN cm
         THEN ListLoopSkipMissing(keys, i + 1, cm, acc)
    ELSE ListLoopSkipMissing(keys, i + 1, cm,
                             DictSet(acc, keys[i], Item(cm[keys[i]])))

RECURSIVE ListLoop(_, _, _, _)
ListLoop(keys, i, cm, acc) ==
    IF i > Len(keys) THEN ReportOk(acc)
    ELSE IF keys[i] \notin DOMAIN cm THEN ReportError
    ELSE ListLoop(keys, i + 1, cm, DictSet(acc, keys[i], Item(cm[keys[i]])))

\* The same loop over the keys of a dict, metric = self._metrics[key].
RECURSIVE DictLoop(_, _, _, _)
DictLoop(map, todo, cm, acc) ==
    IF todo = {} THEN ReportOk(acc)
    ELSE LET key == CHOOSE k \in todo : TRUE
             metric == map[key]
         IN IF metric \notin DOMAIN cm THEN ReportError
            ELSE DictLoop(map, todo \ {key}, cm,
                          DictSet(acc, key, Item(cm[metric])))

\* _get_report_dict without the isinstance(dict) branch: a rename mapping is
\* looked up by its own keys.
GetReportDictNoRename(metrics, running_sanity_check, cm) ==
    IF running_sanity_check THEN ReportNone
    ELSE IF Falsy(metrics)
         THEN ReportOk([k \in DOMAIN cm |-> Item(cm[k])])
    ELSE IF metrics.type = "dict"
         THEN DictLoop([k \in DOMAIN metrics.map |-> k], DOMAIN metrics.map,
                       cm, EmptyDict)
    ELSE ListLoop(metrics.keys, 1, cm, EmptyDict)

\* TuneReportCallback._get_report_dict.
GetReportDict(metrics, running_sanity_check, cm) ==
    IF running_sanity_check THEN ReportNone
    ELSE IF Falsy(metrics)
         THEN ReportOk([k \in DOMAIN cm |-> Item(cm[k])])
    ELSE IF metrics.type = "dict"
         THEN DictLoop(metrics.map, DOMAIN metrics.map, cm, EmptyDict)
    ELSE ListLoop(metrics.keys, 1, cm, EmptyDict)


\* ------------------------------------------------------- relay queue items
\* A queued zero-argument action.  kind "report" is lambda: tune.report(
\* **report_dict); kind "checkpoint" is lambda: self._create_checkpoint(
\* checkpoint_dict, global_step, filename).  "by" (the enqueuing worker) and,
\* for reports, "step" are history tags that no code reads.
ReportAction(report_dict, by, step) ==
    [kind |-> "report", dict |-> report_dict, by |-> by, step |-> step]
CheckpointAction(by, global_step) ==
    [kind |-> "checkpoint", dict |-> EmptyDict, by |-> by, step |-> global_step]

\* What one callback invocation did: the actions it handed to put_queue, in
\* order, whether it raised, and how many checkpoint snapshots it dumped.
Handled(puts, error, snapshots) ==
    [puts |-> puts, error |-> error, snapshots |-> snapshots]

\* _handle without the rank test: every worker reports.
ReportHandleAnyRank(metrics, rank, running_sanity_check, cm, by, step) ==
    LET report_dict == GetReportDict(metrics, running_sanity_check, cm)
    IN IF report_dict.status = "error" THEN Handled(<<>>, TRUE, 0)
       ELSE IF report_dict.status = "ok"
            THEN Handled(<<ReportAction(report_dict.dict, by, step)>>, FALSE, 0)
       ELSE Handled(<<>>, FALSE, 0)

\* TuneReportCallback._handle.
ReportHandle(metrics, rank, running_sanity_check, cm, by, step) ==
    IF rank = 0
    THEN LET report_dict == GetReportDict(metrics, running_sanity_check, cm)
         IN IF report_dict.status = "error" THEN Handled(<<>>, TRUE, 0)
            ELSE IF report_dict.status = "ok"
                 THEN Handled(<<ReportAction(report_dict.dict, by, step)>>,
                              FALSE, 0)
            ELSE Handled(<<>>, FALSE, 0)
    ELSE Handled(<<>>, FALSE, 0)

\* _handle without the sanity-check return.
CheckpointHandleInSanity(rank, running_sanity_check, by, step) ==
    Handled(IF rank = 0 THEN <<CheckpointAction(by, step)>> ELSE <<>>,
            FALSE, 1)

\* _handle without the rank test: every worker enqueues the file write.
CheckpointHandleAnyRank(rank, running_sanity_check, by, step) ==
    IF running_sanity_check THEN Handled(<<>>, FALSE, 0)
    ELSE Handled(<<CheckpointAction(by, step)>>, FALSE, 1)

\* _TuneCheckpointCallback._handle.
CheckpointHandle(rank, running_sanity_check, by, step) ==
    IF running_sanity_check THEN Handled(<<>>, FALSE, 0)
    ELSE Handled(IF rank = 0 THEN <<CheckpointAction(by, step)>> ELSE <<>>,
                 FALSE, 1)

\* _handle with the two calls swapped: the report, then the checkpoint.
CombinedHandleReportFirst(metrics, rank, running_sanity_check, cm, by, step) ==
    LET r == ReportHandle(metrics, rank, running_sanity_check, cm, by, step)
        c == CheckpointHandle(rank, running_sanity_check, by, step)
    IN IF r.error THEN r
       ELSE Handled(r.puts \o c.puts, FALSE, c.snapshots)

\* TuneReportCheckpointCallback._handle: the checkpoint callback, then the
\* report callback; a KeyError of the second leaves the first one's put done.
CombinedHandle(metrics, rank, running_sanity_check, cm, by, step) ==
    LET c == CheckpointHandle(rank, running_sanity_check, by, step)
        r == ReportHandle(metrics, rank, running_sanity_check, cm, by, step)
    IN Handled(c.puts \o r.puts, r.error, c.snapshots)

\* The callback the trainer was built with (at most one in this model).
Callback(kind, metrics) == [kind |-> kind, metrics |-> InitMetrics(metrics)]

Handle(cb, rank, running_sanity_check, cm, by, step) ==
    IF cb.kind = "report"
    THEN ReportHandle(cb.metrics, rank, running_sanity_check, cm, by, step)
    ELSE IF cb.kind = "checkpoint"
    THEN CheckpointHandle(rank, running_sanity_check, by, step)
    ELSE IF cb.kind = "combined"
    THEN CombinedHandle(cb.metrics, rank, running_sanity_check, cm, by, step)
    ELSE Handled(<<>>, FALSE, 0)


\* ---------------------------------------------------------------- state
VARIABLES
    num_hosts,      \* HorovodRayAccelerator.num_hosts
    num_slots,      \* HorovodRayAccelerator.num_slots
    tuneSession,    \* TUNE_INSTALLED and is_session_enabled() on the driver
    driverJob,      \* the trainer object the driver built (model weights ...)
    selfTrainer,    \* the driver's self.trainer: "job" or "None"
    objectStore,    \* what ray.put stored: <<>> or <<serialized trainer>>
    allocated,      \* self.executor holds a started worker group
    hvdRank,        \* worker handle -> hvd.rank() of its process
    dpc,            \* where the driver is
    queueRef,       \* train()'s local "queue" is not None
    queue,          \* the relay queue's pending actions, oldest first
    futures,        \* result_futures, by worker handle
    notReady,       \* process_results: tasks not yet seen complete
    returned,       \* what train() returned: <<>> or <<metrics>>
    raised,         \* the exception train() ended with
    executed,       \* actions the driver has run, in order (history)
    enqueued,       \* actions ever put on the queue, in order (history)
    wpc,            \* where each worker's train_remote is
    wJob,           \* each worker's self.trainer (its fetched copy)
    session,        \* each worker process's Session
    epoch,          \* epochs each worker's training loop has finished
    snapshots,      \* dump_checkpoint() calls made by each worker (history)
    dispatched,     \* train_remote tasks submitted to each worker (history)
    taskArgs,       \* the arguments each dispatched task was given
    hvdLocalRank,   \* what hvd.local_rank() returned to each worker, if read
    firedUnset,     \* a callback fired on the worker with no Session (history)
    reportCall,     \* one call of _get_report_dict: its arguments and result
    resourcesCall   \* one call of get_tune_ddp_resources, likewise

protocolVars == <<num_hosts, num_slots, tuneSession, driverJob, selfTrainer,
          objectStore, allocated, hvdRank, dpc, queueRef, queue, futures,
          notReady, returned, raised, executed, enqueued, wpc, wJob, session,
          epoch, snapshots, dispatched, taskArgs, hvdLocalRank, firedUnset>>

vars == <<protocolVars, reportCall, resourcesCall>>

\* The worker group: handles 1..N in the order of self.executor.workers.
\* An executor sized by the sum of its two settings.
ExecutorSizeSum(hosts, slots) == hosts + slots

\* CustomRayExecutor(num_hosts=..., num_slots=...): num_slots workers on each
\* of num_hosts hosts.
ExecutorSize(hosts, slots) == hosts * slots
N == ExecutorSize(num_hosts, num_slots)
Workers == 1 .. N

\* ------------------------------------------------------- the training job
\* The trainer configurations the driver may build (get_trainer): with or
\* without a checkpoint callback, 1..MaxEpochs epochs, one Tune callback.
CallbackConfigs ==
    { Callback("none", NoMetrics),
      Callback("report", NoMetrics),
      Callback("report", ListMetrics(<<"val_acc">>)),
      Callback("report", DictMetrics([k \in {"loss"} |-> "val_loss"])),
      Callback("checkpoint", NoMetrics),
      Callback("combined", NoMetrics),
      Callback("combined", ListMetrics(<<"val_acc">>)) }

\* The model's weights before any training, and the weights worker w holds
\* after e epochs of its own loop (opaque; distinct per worker and stage).
InitialWeights == 0
TrainedWeights(w, e) == 10 * w + e

\* ModelCheckpoint.best_model_path on worker w once it has trained.
InitialBestPath == 0
TrainedBestPath(w) == w

\* The metrics object super().train() returns on worker w.
TrainResult(w) == 100 + w

\* trainer.callback_metrics at validation end: BoringModel logs val_loss.
CallbackMetrics == [k \in {"val_loss"} |-> Tensor(1)]

\* ray.put / ray.get: the stored bytes carry the fields, not the identity;
\* the object fetched on worker w is a new object owned by w.
Serialize(job) == [f \in (DOMAIN job) \ {"obj"} |-> job[f]]
Deserialize(blob, w) ==
    [f \in (DOMAIN blob) \cup {"obj"} |-> IF f = "obj" THEN w ELSE blob[f]]

NoJob ==
    [obj |-> NoneVal, weights |-> InitialWeights,
     best_model_path |-> InitialBestPath, checkpoint_callback |-> FALSE,
     max_epochs |-> 1, callback |-> Callback("none", NoMetrics),
     on_gpu |-> FALSE, root_gpu |-> NoneVal]

\* ----------------------------------------------------------- the session
NoSession == [set |-> FALSE, rank |-> 0, queue |-> FALSE]
\* init_session(rank, queue)
InitSession(rank, q) == [set |-> TRUE, rank |-> rank, queue |-> q]
\* get_actor_rank()
GetActorRank(s) == s.rank
\* put_queue(item): a no-op when no session or queue is active.
PutQueue(s, q, items) == IF s.set /\ s.queue THEN q \o items ELSE q

\* ------------------------------------------------------- worker results
NullResult ==
    [null |-> TRUE, metrics |-> 0, state_dict |-> 0, best_path |-> NoneVal]
Future(state, value) == [state |-> state, value |-> value]

NoException == [kind |-> "none", task |-> 0]

\* No call of _get_report_dict is being followed.
NoCall ==
    [phase |-> "none", arg |-> NoMetrics, metrics |-> NoMetrics,
     running_sanity_check |-> FALSE, rank |-> 0,
     callback_metrics |-> EmptyDict, out |-> ReportNone,
     handled |-> Handled(<<>>, FALSE, 0)]

\* ---------------------------------------------- get_tune_ddp_resources
\* math.ceil of a number of hundredths, in hundredths.
CeilHundredths(x) == 100 * ((x + 99) \div 100)

\* get_tune_ddp_resources, lines 30-36: the dict the body builds.  The CPU
\* entries are counts; the GPU entries are shares of a GPU in hundredths
\* (num_workers * 0.99 is num_workers * 99).
TuneDdpResources(num_workers, cpus_per_worker, use_gpu) ==
    LET cpus == DictSet(DictSet(EmptyDict, "cpu", 1),
                        "extra_cpu", num_workers * cpus_per_worker)
        total_worker_gpus == num_workers * 99
    IN IF use_gpu
       THEN DictSet(DictSet(cpus, "extra_gpu", total_worker_gpus),
                    "gpu", CeilHundredths(total_worker_gpus) - total_worker_gpus)
       ELSE cpus

\* What a call evaluates to: a dict, or None.
ResourcesNone == [none |-> TRUE, dict |-> EmptyDict]

\* get_tune_ddp_resources, lines 26-36: the body ends after the GPU branch
\* without a return statement, so the call evaluates to None.
GetTuneDdpResources(num_workers, cpus_per_worker, use_gpu) ==
    LET resources == TuneDdpResources(num_workers, cpus_per_worker, use_gpu)
    IN ResourcesNone

\* No call of get_tune_ddp_resources is being followed.
NoResourcesCall ==
    [phase |-> "none", num_workers |-> 1, cpus_per_worker |-> 1,
     use_gpu |-> FALSE, out |-> ResourcesNone]

\* Every assignment of ranks 0..n-1 to the n worker processes.
RankAssignments(n) ==
    { f \in [1 .. n -> 0 .. n - 1] : \A a, b \in 1 .. n : f[a] = f[b] => a = b }

\* The state after HorovodRayAccelerator.__init__ and the Trainer's
\* construction: nothing allocated, the driver holds the job.
Constructed(hosts, slots, tune_session, job) ==
    /\ num_hosts = hosts
    /\ num_slots = slots
    /\ tuneSession = tune_session
    /\ driverJob = job
    /\ selfTrainer = "job"
    /\ objectStore = <<>>
    /\ allocated = FALSE
    /\ hvdRank = <<>>
    /\ dpc = "constructed"
    /\ queueRef = FALSE
    /\ queue = <<>>
    /\ futures = <<>>
    /\ notReady = {}
    /\ returned = <<>>
    /\ raised = NoException
    /\ executed = <<>>
    /\ enqueued = <<>>
    /\ wpc = <<>>
    /\ wJob = <<>>
    /\ session = <<>>
    /\ epoch = <<>>
    /\ snapshots = <<>>
    /\ dispatched = <<>>
    /\ taskArgs = <<>>
    /\ hvdLocalRank = <<>>
    /\ firedUnset = <<>>

DriverJob(ckpt, max_epochs, cb) ==
    [obj |-> 0, weights |-> InitialWeights,
     best_model_path |-> InitialBestPath, checkpoint_callback |-> ckpt,
     max_epochs |-> max_epochs, callback |-> cb,
     on_gpu |-> FALSE, root_gpu |-> NoneVal]

\* The same trainer built with gpus=1: on_gpu set, root_gpu the first GPU.
OnGpu(job) == [job EXCEPT !.on_gpu = TRUE, !.root_gpu = 0]

Init ==
    /\ \E hosts \in 1 .. MaxHosts, slots \in 1 .. MaxWorkers,
          tune_session \in BOOLEAN, ckpt \in BOOLEAN,
          max_epochs \in 1 .. MaxEpochs, cb \in CallbackConfigs :
          /\ hosts * slots <= MaxWorkers
          /\ Constructed(hosts, slots, tune_session,
                         DriverJob(ckpt, max_epochs, cb))
    /\ reportCall = NoCall
    /\ resourcesCall = NoResourcesCall

\* ------------------------------------------------------------ the driver
\* CustomRayExecutor.run_async: one task per worker of self.workers.
RunAsync(ws) == [w \in ws |-> Future("pending", NullResult)]

\* run_async, line 33: worker.execute.remote(lambda w: fn(*args, **kwargs)),
\* the one args list handed to every worker's task.
RunAsyncArgs(ws, given, args) == [w \in ws |-> Append(given[w], args)]

\* train(), line 138: args=[trainer_ref, queue].
TrainRemoteArgs(trainer_ref, q) == [trainer_ref |-> trainer_ref, queue |-> q]

\* HorovodRayAccelerator.setup: creates and starts the executor; starting the
\* ring is where the library gives every worker process its rank.
Setup ==
    /\ dpc = "constructed"
    /\ dpc' = "ready"
    /\ allocated' = TRUE
    /\ hvdRank' \in RankAssignments(N)
    /\ wpc' = [w \in Workers |-> "idle"]
    /\ wJob' = [w \in Workers |-> NoJob]
    /\ session' = [w \in Workers |-> NoSession]
    /\ epoch' = [w \in Workers |-> 0]
    /\ snapshots' = [w \in Workers |-> 0]
    /\ dispatched' = [w \in Workers |-> 0]
    /\ taskArgs' = [w \in Workers |-> <<>>]
    /\ hvdLocalRank' = [w \in Workers |-> NoneVal]
    /\ firedUnset' = [w \in Workers |-> FALSE]
    /\ futures' = <<>>
    /\ UNCHANGED <<reportCall, resourcesCall, num_hosts, num_slots, tuneSession, driverJob, selfTrainer,
                   objectStore, queueRef, queue, notReady, returned, raised,
                   executed, enqueued>>

\* train() keeping self.trainer while the workers run.
TrainDispatchAttached ==
    /\ dpc = "ready"
    /\ allocated
    /\ objectStore' = <<Serialize(driverJob)>>
    /\ selfTrainer' = selfTrainer
    /\ queueRef' = tuneSession
    /\ queue' = <<>>
    /\ futures' = RunAsync(Workers)
    /\ dispatched' = [w \in Workers |-> dispatched[w] + 1]
    /\ taskArgs' = RunAsyncArgs(Workers, taskArgs,
                                TrainRemoteArgs(1, queueRef'))
    /\ wpc' = [w \in Workers |-> "dispatched"]
    /\ notReady' = Workers
    /\ dpc' = "drain"
    /\ UNCHANGED <<hvdLocalRank, firedUnset, reportCall, resourcesCall, num_hosts, num_slots, tuneSession, driverJob, allocated,
                   hvdRank, returned, raised, executed, enqueued, wJob,
                   session, epoch, snapshots>>

\* train(), lines 128-138: put the trainer in the object store, detach it,
\* create the queue under a Tune session, dispatch train_remote to everyone.
TrainDispatch ==
    /\ dpc = "ready"
    /\ allocated
    /\ objectStore' = <<Serialize(driverJob)>>
    /\ selfTrainer' = "None"
    /\ queueRef' = tuneSession
    /\ queue' = <<>>
    /\ futures' = RunAsync(Workers)
    /\ dispatched' = [w \in Workers |-> dispatched[w] + 1]
    /\ taskArgs' = RunAsyncArgs(Workers, taskArgs,
                                TrainRemoteArgs(1, queueRef'))
    /\ wpc' = [w \in Workers |-> "dispatched"]
    /\ notReady' = Workers
    /\ dpc' = "drain"
    /\ UNCHANGED <<hvdLocalRank, firedUnset, reportCall, resourcesCall, num_hosts, num_slots, tuneSession, driverJob, allocated,
                   hvdRank, returned, raised, executed, enqueued, wJob,
                   session, epoch, snapshots>>

\* train() calling process_results(result_futures, None).
ProcessResultsQueueDropped == FALSE

\* The queue train() passes to process_results (line 140) and to the
\* workers (line 138).
ProcessResultsQueue == queueRef
TrainRemoteQueue == queueRef

\* process_results, checking the queue: run the oldest pending action.
HandleQueueItem ==
    /\ dpc \in {"drain", "final"}
    /\ ProcessResultsQueue
    /\ queue # <<>>
    /\ executed' = Append(executed, Head(queue))
    /\ queue' = Tail(queue)
    /\ UNCHANGED <<taskArgs, hvdLocalRank, firedUnset, reportCall, resourcesCall, num_hosts, num_slots, tuneSession, driverJob, selfTrainer,
                   objectStore, allocated, hvdRank, dpc, queueRef, futures,
                   notReady, returned, raised, enqueued, wpc, wJob, session,
                   epoch, snapshots, dispatched>>

\* process_results, the queue found empty (or no queue): go on to check the
\* tasks, or, after the last task completed, to collect the results.
HandleQueueEmpty ==
    /\ dpc \in {"drain", "final"}
    /\ ~ProcessResultsQueue \/ queue = <<>>
    /\ dpc' = IF dpc = "drain" THEN "wait" ELSE "select"
    /\ UNCHANGED <<taskArgs, hvdLocalRank, firedUnset, reportCall, resourcesCall, num_hosts, num_slots, tuneSession, driverJob, selfTrainer,
                   objectStore, allocated, hvdRank, queueRef, queue, futures,
                   notReady, returned, raised, executed, enqueued, wpc, wJob,
                   session, epoch, snapshots, dispatched>>

\* process_results, checking the tasks without blocking: a failed task's
\* exception is raised in the driver; once none is left the queue is drained
\* a last time.
WaitTasks ==
    /\ dpc = "wait"
    /\ LET ready == {w \in notReady : futures[w].state # "pending"}
           failed == {w \in ready : futures[w].state = "failed"}
       IN IF failed # {}
          THEN /\ \E w \in failed : raised' = [kind |-> "task", task |-> w]
               /\ dpc' = "failed"
               /\ UNCHANGED notReady
          ELSE /\ notReady' = notReady \ ready
               /\ dpc' = IF notReady' = {} THEN "final" ELSE "drain"
               /\ UNCHANGED raised
    /\ UNCHANGED <<taskArgs, hvdLocalRank, firedUnset, reportCall, resourcesCall, num_hosts, num_slots, tuneSession, driverJob, selfTrainer,
                   objectStore, allocated, hvdRank, queueRef, queue, futures,
                   returned, executed, enqueued, wpc, wJob, session, epoch,
                   snapshots, dispatched>>

\* train() without the load_state_dict call.
LoadStateDictSkipped(job, state_dict) == job

\* train(), line 145: self.trainer.model.load_state_dict(state_dict).
LoadStateDict(job, state_dict) == [job EXCEPT !.weights = state_dict]

\* train() writing the best path whether or not a checkpoint callback is set.
SetBestModelPathAlways(job, best_path) ==
    [job EXCEPT !.best_model_path = best_path]

\* train(), lines 146-147: the best path, if a checkpoint callback is set.
SetBestModelPath(job, best_path) ==
    IF job.checkpoint_callback
    THEN [job EXCEPT !.best_model_path = best_path]
    ELSE job

\* train() catching a task's failure and loading whatever position 0 holds.
TrainLoadResultSalvage ==
    /\ \/ dpc = "select"
       \/ dpc = "failed" /\ raised.kind = "task" /\ selfTrainer = "None"
    /\ futures[1].state = "ready"
    /\ ~futures[1].value.null
    /\ selfTrainer' = "job"
    /\ driverJob' = SetBestModelPath(
                        LoadStateDict(driverJob, futures[1].value.state_dict),
                        futures[1].value.best_path)
    /\ returned' = <<futures[1].value.metrics>>
    /\ dpc' = "done"
    /\ UNCHANGED <<taskArgs, hvdLocalRank, firedUnset, reportCall, resourcesCall, num_hosts, num_slots, tuneSession, objectStore,
                   allocated, hvdRank, queueRef, queue, futures, notReady,
                   raised, executed, enqueued, wpc, wJob, session, epoch,
                   snapshots, dispatched>>

\* train() reattaching the trainer on the failure path too.
TrainLoadResultRestoring ==
    /\ dpc = "select"
    /\ LET result == futures[1].value
       IN IF result.null
          THEN /\ raised' = [kind |-> "unpack", task |-> 0]
               /\ dpc' = "failed"
               /\ selfTrainer' = "job"
               /\ UNCHANGED <<driverJob, returned>>
          ELSE /\ selfTrainer' = "job"
               /\ driverJob' =
                     SetBestModelPath(
                         LoadStateDict(driverJob, result.state_dict),
                         result.best_path)
               /\ returned' = <<result.metrics>>
               /\ dpc' = "done"
               /\ UNCHANGED raised
    /\ UNCHANGED <<taskArgs, hvdLocalRank, firedUnset, reportCall, resourcesCall, num_hosts, num_slots, tuneSession, objectStore, allocated,
                   hvdRank, queueRef, queue, futures, notReady, executed,
                   enqueued, wpc, wJob, session, epoch, snapshots, dispatched>>

\* train(), lines 142-149: unpack results[0], reattach the trainer, load the
\* state dict, set the best path, return the metrics.  Unpacking None raises.
TrainLoadResult ==
    /\ dpc = "select"
    /\ LET result == futures[1].value
       IN IF result.null
          THEN /\ raised' = [kind |-> "unpack", task |-> 0]
               /\ dpc' = "failed"
               /\ UNCHANGED <<selfTrainer, driverJob, returned>>
          ELSE /\ selfTrainer' = "job"
               /\ driverJob' =
                     SetBestModelPath(
                         LoadStateDict(driverJob, result.state_dict),
                         result.best_path)
               /\ returned' = <<result.metrics>>
               /\ dpc' = "done"
               /\ UNCHANGED raised
    /\ UNCHANGED <<taskArgs, hvdLocalRank, firedUnset, reportCall, resourcesCall, num_hosts, num_slots, tuneSession, objectStore, allocated,
                   hvdRank, queueRef, queue, futures, notReady, executed,
                   enqueued, wpc, wJob, session, epoch, snapshots, dispatched>>

\* teardown(): shuts the executor down, releasing every worker.
Teardown ==
    /\ allocated
    /\ dpc \in {"ready", "done", "failed"}
    /\ allocated' = FALSE
    /\ UNCHANGED <<taskArgs, hvdLocalRank, firedUnset, reportCall, resourcesCall, num_hosts, num_slots, tuneSession, driverJob, selfTrainer,
                   objectStore, hvdRank, dpc, queueRef, queue, futures,
                   notReady, returned, raised, executed, enqueued, wpc, wJob,
                   session, epoch, snapshots, dispatched>>


\* ----------------------------------------------------------- the workers
\* hvd.rank() in the process of worker w.
HvdRank(w) == hvdRank[w]

\* The host worker w was started on: the executor fills each host with
\* num_slots workers.
HostOf(w) == (w - 1) \div num_slots

\* hvd.local_rank() in the process of worker w: the library numbers the
\* processes of one host 0 .. num_slots - 1, each number once.
LocalRanks(w) ==
    {l \in 0 .. num_slots - 1 :
        \A v \in Workers \ {w} :
            HostOf(v) = HostOf(w) => hvdLocalRank[v] # l}

\* train_remote binding the GPU by the global rank.
RootGpuByRank(rank, local_rank) == rank

\* train_remote, line 160: self.trainer.root_gpu = hvd.local_rank().
RootGpu(rank, local_rank) == local_rank

workerFrame == <<taskArgs, reportCall, resourcesCall, num_hosts, num_slots, tuneSession, driverJob, selfTrainer,
                 objectStore, allocated, hvdRank, dpc, queueRef, notReady,
                 returned, raised, executed, dispatched>>

\* What one firing of worker w's callbacks on validation_end does, given the
\* worker's session s: the puts reach the queue, a callback's exception
\* leaves the training loop and fails the task.
FireCallbacks(w, s, cb, running_sanity_check, step) ==
    LET h == Handle(cb, GetActorRank(s), running_sanity_check,
                    CallbackMetrics, w, step)
    IN /\ queue' = PutQueue(s, queue, h.puts)
       /\ enqueued' = PutQueue(s, enqueued, h.puts)
       /\ snapshots' = [snapshots EXCEPT ![w] = @ + h.snapshots]
       /\ firedUnset' = [firedUnset EXCEPT ![w] = @ \/ ~s.set]
       /\ wpc' = [wpc EXCEPT ![w] = IF h.error THEN "failed" ELSE "fit"]
       /\ futures' = IF h.error
                     THEN [futures EXCEPT ![w] = Future("failed", NullResult)]
                     ELSE futures

\* train_remote entering the training loop before init_session.
TrainRemoteStartLateSession(w) ==
    /\ allocated
    /\ wpc[w] = "dispatched"
    /\ LET args == taskArgs[w][Len(taskArgs[w])]
           trainer == Deserialize(objectStore[args.trainer_ref], w)
           s == IF args.queue
                THEN InitSession(HvdRank(w), args.queue)
                ELSE session[w]
       IN \E local_rank \in
              (IF trainer.on_gpu THEN LocalRanks(w) ELSE {NoneVal}) :
            /\ hvdLocalRank' = [hvdLocalRank EXCEPT ![w] = local_rank]
            /\ wJob' = [wJob EXCEPT ![w] =
                          IF trainer.on_gpu
                          THEN [trainer EXCEPT !.root_gpu =
                                    RootGpu(HvdRank(w), local_rank)]
                          ELSE trainer]
            /\ session' = [session EXCEPT ![w] = s]
            /\ FireCallbacks(w, session[w], trainer.callback, TRUE, 0)
    /\ UNCHANGED <<workerFrame, epoch>>

\* train_remote, lines 153-164, up to the first epoch: fetch the trainer,
\* hvd.init(), initialize the session when a queue was passed, set the
\* accelerator up and enter super().train(), whose validation sanity check
\* fires validation_end with trainer.running_sanity_check set.
TrainRemoteStart(w) ==
    /\ allocated
    /\ wpc[w] = "dispatched"
    /\ LET args == taskArgs[w][Len(taskArgs[w])]
           trainer == Deserialize(objectStore[args.trainer_ref], w)
           s == IF args.queue
                THEN InitSession(HvdRank(w), args.queue)
                ELSE session[w]
       IN \E local_rank \in
              (IF trainer.on_gpu THEN LocalRanks(w) ELSE {NoneVal}) :
            /\ hvdLocalRank' = [hvdLocalRank EXCEPT ![w] = local_rank]
            /\ wJob' = [wJob EXCEPT ![w] =
                          IF trainer.on_gpu
                          THEN [trainer EXCEPT !.root_gpu =
                                    RootGpu(HvdRank(w), local_rank)]
                          ELSE trainer]
            /\ session' = [session EXCEPT ![w] = s]
            /\ FireCallbacks(w, s, trainer.callback, TRUE, 0)
    /\ UNCHANGED <<workerFrame, epoch>>

\* super().train(), one epoch: the weights move, the checkpoint callback (if
\* any) records its best path, then validation_end fires.
TrainEpoch(w) ==
    /\ allocated
    /\ wpc[w] = "fit"
    /\ epoch[w] < wJob[w].max_epochs
    /\ epoch' = [epoch EXCEPT ![w] = @ + 1]
    /\ wJob' = [wJob EXCEPT
                  ![w].weights = TrainedWeights(w, epoch[w] + 1),
                  ![w].best_model_path =
                      IF wJob[w].checkpoint_callback
                      THEN TrainedBestPath(w) ELSE @]
    /\ FireCallbacks(w, session[w], wJob[w].callback, FALSE, epoch[w] + 1)
    /\ UNCHANGED <<workerFrame, session, hvdLocalRank>>

\* train_remote without the rank test: every worker returns its results.
TrainRemoteResultAnyRank(w) ==
    [null |-> FALSE,
     metrics |-> TrainResult(w),
     state_dict |-> wJob[w].weights,
     best_path |-> IF wJob[w].checkpoint_callback
                   THEN wJob[w].best_model_path ELSE NoneVal]

\* train_remote, lines 165-174: what the task returns.
TrainRemoteResult(w) ==
    IF HvdRank(w) # 0 THEN NullResult
    ELSE [null |-> FALSE,
          metrics |-> TrainResult(w),
          state_dict |-> wJob[w].weights,
          best_path |-> IF wJob[w].checkpoint_callback
                        THEN wJob[w].best_model_path ELSE NoneVal]

TrainRemoteReturn(w) ==
    /\ allocated
    /\ wpc[w] = "fit"
    /\ epoch[w] = wJob[w].max_epochs
    /\ wpc' = [wpc EXCEPT ![w] = "returned"]
    /\ futures' = [futures EXCEPT ![w] = Future("ready", TrainRemoteResult(w))]
    /\ UNCHANGED <<workerFrame, queue, enqueued, wJob, session, epoch,
                   snapshots, hvdLocalRank, firedUnset>>

\* Any exception inside train_remote (the training loop, the ring) fails the
\* worker's task.
TrainRemoteRaise(w) ==
    /\ allocated
    /\ wpc[w] \in {"dispatched", "fit"}
    /\ wpc' = [wpc EXCEPT ![w] = "failed"]
    /\ futures' = [futures EXCEPT ![w] = Future("failed", NullResult)]
    /\ UNCHANGED <<workerFrame, queue, enqueued, wJob, session, epoch,
                   snapshots, hvdLocalRank, firedUnset>>

Next ==
    \/ Setup
    \/ TrainDispatch
    \/ HandleQueueItem
    \/ HandleQueueEmpty
    \/ WaitTasks
    \/ TrainLoadResult
    \/ Teardown
    \/ \E w \in DOMAIN wpc : TrainRemoteStart(w)
    \/ \E w \in DOMAIN wpc : TrainEpoch(w)
    \/ \E w \in DOMAIN wpc : TrainRemoteReturn(w)
    \/ \E w \in DOMAIN wpc : TrainRemoteRaise(w)

Spec == Init /\ [][Next]_vars


\* ------------------------------------------- the driver's loop scheduled
\* Runs under a Tune session with the combined callback.  The driver is one
\* running thread inside process_results: whichever step of its loop is
\* enabled is eventually taken.  Nothing is assumed of the workers, which
\* may stall for ever.
InitFair ==
    /\ \E hosts \in 1 .. MaxHosts, slots \in 1 .. MaxWorkers,
          max_epochs \in 1 .. MaxEpochs :
          /\ hosts * slots <= MaxWorkers
          /\ Constructed(hosts, slots, TRUE,
                         DriverJob(FALSE, max_epochs,
                                   Callback("combined", NoMetrics)))
    /\ reportCall = NoCall
    /\ resourcesCall = NoResourcesCall

SpecFair ==
    /\ InitFair
    /\ [][Next]_vars
    /\ WF_vars(HandleQueueItem)
    /\ WF_vars(HandleQueueEmpty)
    /\ WF_vars(WaitTasks)


\* ------------------------------------------------- the GPU binding alone
\* Runs under a Tune session with a metric reporter, the trainer built with
\* or without GPUs.
InitGpu ==
    /\ \E hosts \in 1 .. MaxHosts, slots \in 1 .. MaxWorkers,
          on_gpu \in BOOLEAN, max_epochs \in 1 .. MaxEpochs :
          LET job == DriverJob(FALSE, max_epochs, Callback("report", NoMetrics))
          IN /\ hosts * slots <= MaxWorkers
             /\ Constructed(hosts, slots, TRUE,
                            IF on_gpu THEN OnGpu(job) ELSE job)
    /\ reportCall = NoCall
    /\ resourcesCall = NoResourcesCall

SpecGpu == InitGpu /\ [][Next]_vars


\* ------------------------------------------- _get_report_dict on its own
\* Lists of at most n metric keys.
RECURSIVE KeyLists(_)
KeyLists(n) ==
    IF n = 0 THEN {<<>>}
    ELSE LET shorter == KeyLists(n - 1)
         IN shorter \cup {Append(l, k) : l \in shorter, k \in MetricKeys}

\* Every "metrics" argument within the bounds: None, a str, a list, a
\* rename mapping (new name -> logged key).
MetricsArgs ==
    {NoMetrics}
    \cup {StrMetrics(k) : k \in MetricKeys}
    \cup {ListMetrics(l) : l \in KeyLists(MaxListLen)}
    \cup UNION {{DictMetrics(m) : m \in [d -> MetricKeys]} : d \in SUBSET TuneKeys}

\* Every trainer.callback_metrics within the bounds.
MetricsMappings ==
    UNION {[d -> {Tensor(v) : v \in 0 .. MaxMetricVal}] : d \in SUBSET MetricKeys}

\* A TuneReportCallback is constructed and meets a trainer state.
InitReport ==
    /\ Constructed(1, 1, FALSE, DriverJob(FALSE, 1, Callback("none", NoMetrics)))
    /\ \E metrics \in MetricsArgs, sanity \in BOOLEAN, cm \in MetricsMappings,
          rank \in 0 .. 1 :
          reportCall = [NoCall EXCEPT
                          !.phase = "called", !.arg = metrics,
                          !.metrics = InitMetrics(metrics),
                          !.running_sanity_check = sanity,
                          !.rank = rank,
                          !.callback_metrics = cm]
    /\ resourcesCall = NoResourcesCall

\* The call returns (or raises).
CallGetReportDict ==
    /\ reportCall.phase = "called"
    /\ reportCall' =
          [reportCall EXCEPT
             !.phase = "returned",
             !.out = GetReportDict(reportCall.metrics,
                                   reportCall.running_sanity_check,
                                   reportCall.callback_metrics)]
    /\ UNCHANGED <<protocolVars, resourcesCall>>

\* The callback is triggered instead: TuneReportCallback._handle runs on a
\* process of the given rank and ends (or raises).
CallReportHandle ==
    /\ reportCall.phase = "called"
    /\ reportCall' =
          [reportCall EXCEPT
             !.phase = "handled",
             !.handled = ReportHandle(reportCall.metrics, reportCall.rank,
                                      reportCall.running_sanity_check,
                                      reportCall.callback_metrics, 1, 1)]
    /\ UNCHANGED <<protocolVars, resourcesCall>>

NextReport == CallGetReportDict \/ CallReportHandle

SpecReport == InitReport /\ [][NextReport]_vars


\* ------------------------------------- get_tune_ddp_resources on its own
InitResources ==
    /\ Constructed(1, 1, FALSE, DriverJob(FALSE, 1, Callback("none", NoMetrics)))
    /\ reportCall = NoCall
    /\ \E num_workers \in 1 .. MaxNumWorkers,
          cpus_per_worker \in 1 .. MaxCpusPerWorker, use_gpu \in BOOLEAN :
          resourcesCall = [NoResourcesCall EXCEPT
                             !.phase = "called",
                             !.num_workers = num_workers,
                             !.cpus_per_worker = cpus_per_worker,
                             !.use_gpu = use_gpu]

\* The call returns.
CallGetTuneDdpResources ==
    /\ resourcesCall.phase = "called"
    /\ resourcesCall' =
          [resourcesCall EXCEPT
             !.phase = "returned",
             !.out = GetTuneDdpResources(resourcesCall.num_workers,
                                         resourcesCall.cpus_per_worker,
                                         resourcesCall.use_gpu)]
    /\ UNCHANGED <<protocolVars, reportCall>>

NextResources == CallGetTuneDdpResources

SpecResources == InitResources /\ [][NextResources]_vars


\* ================================================================ claims
IsPrefix(a, b) == Len(a) <= Len(b) /\ SubSeq(b, 1, Len(a)) = a
CountKind(seq, kind) == Cardinality({i \in 1 .. Len(seq) : seq[i].kind = kind})
RankZeroWorkers == {w \in DOMAIN hvdRank : hvdRank[w] = 0}
AllTasksReady ==
    /\ DOMAIN futures # {}
    /\ \A w \in DOMAIN futures : futures[w].state = "ready"
SomeTaskFailed == \E w \in DOMAIN futures : futures[w].state = "failed"

\* C1: the driver executes the enqueued actions in the order they were
\* enqueued, each at most once, and when train() has returned every action
\* ever enqueued has been executed and the queue is empty.
C1_QueueDrainedInOrder ==
    /\ IsPrefix(executed, enqueued)
    /\ dpc = "done" => executed = enqueued /\ queue = <<>>

\* C1 witness: train() returned after the driver ran several actions of a
\* run with more than one worker.
C1_Witness ==
    /\ dpc = "done"
    /\ N >= 2
    /\ Len(executed) >= 2
    /\ executed[1].step < executed[Len(executed)].step

\* C2: once all N tasks completed successfully, exactly one result is
\* non-null, the rank-0 worker's; every other worker returned None.
C2_OneNonNullResult ==
    AllTasksReady =>
        /\ Cardinality({w \in DOMAIN futures : ~futures[w].value.null}) = 1
        /\ \A w \in DOMAIN futures :
              futures[w].value.null <=> hvdRank[w] # 0

\* C2 witness: two workers both completed.
C2_Witness == AllTasksReady /\ N >= 2

C4_WeightsFromRankZero ==
    dpc = "done" =>
        \E w \in RankZeroWorkers :
            /\ driverJob.weights = futures[w].value.state_dict
            /\ driverJob.weights = wJob[w].weights
            /\ driverJob.weights # InitialWeights
            /\ \A v \in DOMAIN wJob \ {w} : driverJob.weights # wJob[v].weights

\* C4 witness: a two-worker run returned.
C4_Witness == dpc = "done" /\ N >= 2 /\ selfTrainer = "job"


\* ---- C5: the report dictionary
KeysOf(l) == {l[i] : i \in 1 .. Len(l)}
Scalars(cm) == [k \in DOMAIN cm |-> Item(cm[k])]
\* The metric keys a "metrics" argument names.
NamedKeys(arg) ==
    IF arg.type = "dict" THEN {arg.map[new] : new \in DOMAIN arg.map}
    ELSE KeysOf(arg.keys)
\* The dictionary the claim describes for that argument.
SelectedDict(arg, cm) ==
    IF arg.type = "none" THEN Scalars(cm)
    ELSE IF arg.type = "dict"
    THEN [new \in DOMAIN arg.map |-> Item(cm[arg.map[new]])]
    ELSE [k \in KeysOf(arg.keys) |-> Item(cm[k])]
\* An argument that selects nothing: None, [] or {}.
EmptySelection(arg) == arg.type = "none" \/ NamedKeys(arg) = {}
\* A call outside the sanity check that names only logged keys has returned.
ReportReturned ==
    /\ reportCall.phase = "returned"
    /\ ~reportCall.running_sanity_check
    /\ NamedKeys(reportCall.arg) \subseteq DOMAIN reportCall.callback_metrics

\* C5 as stated: outside the sanity check the report dictionary is all of M
\* for no selection, {k: M[k]} for the keys of a list (a str being a
\* one-element list), {new: M[old]} for a rename mapping.
C5_ReportDictAsStated ==
    ReportReturned =>
        reportCall.out =
            ReportOk(SelectedDict(reportCall.arg, reportCall.callback_metrics))

\* C5 amended: as stated for None and for a non-empty list or mapping whose
\* named keys are all logged; an empty list and an empty mapping are treated
\* as no selection and report all of M.
C5_ReportDictAmended ==
    ReportReturned =>
        reportCall.out =
            ReportOk(IF EmptySelection(reportCall.arg)
                     THEN Scalars(reportCall.callback_metrics)
                     ELSE SelectedDict(reportCall.arg,
                                       reportCall.callback_metrics))

\* C5 witness: a rename mapping of two names was reported from a mapping
\* that logs both keys with different values.
C5_Witness ==
    /\ ReportReturned
    /\ reportCall.arg.type = "dict"
    /\ DOMAIN reportCall.arg.map = TuneKeys
    /\ reportCall.arg.map["loss"] = "val_loss"
    /\ reportCall.arg.map["mean_accuracy"] = "val_acc"
    /\ reportCall.out.status = "ok"
    /\ reportCall.out.dict["loss"] # reportCall.out.dict["mean_accuracy"]

\* ---- C6..C10: the run
TuneCallback == driverJob.callback
\* process_results returned: every task completed and the queue was drained.
ResultsCollected == dpc \in {"select", "done"} \/ raised.kind = "unpack"

\* C6: under a Tune session with a metric reporter, the driver never runs
\* more reports than the training loop has epochs, and once the results are
\* collected it has run exactly max_epochs of them, one per validation end,
\* whatever the number of workers.
C6_OneReportPerEpoch ==
    (tuneSession /\ TuneCallback.kind = "report") =>
        /\ CountKind(executed, "report") <= driverJob.max_epochs
        /\ ResultsCollected =>
              /\ CountKind(executed, "report") = driverJob.max_epochs
              /\ \A e \in 1 .. driverJob.max_epochs :
                    Cardinality({i \in 1 .. Len(executed) :
                                    executed[i].step = e}) = 1

\* C6 witness: two workers, two epochs, two reports executed, run returned.
C6_Witness ==
    /\ dpc = "done"
    /\ tuneSession
    /\ TuneCallback.kind = "report"
    /\ N >= 2
    /\ driverJob.max_epochs = 2
    /\ CountKind(executed, "report") = 2

\* C7: a worker that has only gone through the sanity check has enqueued
\* nothing, whatever reporter it carries and whatever its rank; no queued
\* action stems from a sanity-phase trigger.
C7_SanityEnqueuesNothing ==
    /\ \A w \in DOMAIN epoch :
          epoch[w] = 0 =>
              \A i \in 1 .. Len(enqueued) : enqueued[i].by # w
    /\ \A i \in 1 .. Len(enqueued) : enqueued[i].step # 0

\* C7 witness: the rank-0 worker of a Tune run with the combined reporter is
\* past its sanity check and before its first epoch.
C7_Witness ==
    \E w \in DOMAIN wpc :
        /\ wpc[w] = "fit"
        /\ epoch[w] = 0
        /\ hvdRank[w] = 0
        /\ session[w].set /\ session[w].queue
        /\ wJob[w].callback.kind = "combined"

\* C8: every action ever enqueued was enqueued by the rank-0 worker, while
\* the checkpoint reporter has dumped one snapshot per epoch on every worker.
C8_OnlyRankZeroEnqueues ==
    /\ \A i \in 1 .. Len(enqueued) : hvdRank[enqueued[i].by] = 0
    /\ TuneCallback.kind \in {"checkpoint", "combined"} =>
          \A w \in DOMAIN snapshots : snapshots[w] = epoch[w]

\* C8 witness: a worker of rank 1 dumped a snapshot and enqueued nothing
\* while rank 0's write is on record.
C8_Witness ==
    /\ Len(enqueued) >= 1
    /\ \E w \in DOMAIN snapshots :
          /\ hvdRank[w] # 0
          /\ snapshots[w] >= 1
          /\ session[w].set /\ session[w].queue

SameTrigger(a, b) == a.step = b.step /\ a.by = b.by
\* In seq, every report directly follows the checkpoint write of its trigger.
ReportsFollowCheckpoints(seq) ==
    \A i \in 1 .. Len(seq) :
        seq[i].kind = "report" =>
            /\ i > 1
            /\ seq[i - 1].kind = "checkpoint"
            /\ SameTrigger(seq[i - 1], seq[i])
\* The checkpoint write at position i of seq has its report right behind it.
ReportFollows(seq, i) ==
    /\ i < Len(seq)
    /\ seq[i + 1].kind = "report"
    /\ SameTrigger(seq[i], seq[i + 1])

C10_TaskFailureFailsTrain ==
    SomeTaskFailed =>
        /\ dpc \notin {"select", "done"}
        /\ returned = <<>>
        /\ \A w \in DOMAIN dispatched : dispatched[w] = 1
        /\ driverJob.weights = InitialWeights
        /\ driverJob.best_model_path = InitialBestPath
        /\ dpc = "failed" =>
              /\ raised.kind = "task"
              /\ futures[raised.task].state = "failed"

\* C10 witness: of two tasks, the first completed with the rank-0 result and
\* the second failed; train() raised the second one's failure.
C10_Witness ==
    /\ dpc = "failed"
    /\ N >= 2
    /\ futures[1].state = "ready" /\ ~futures[1].value.null
    /\ futures[2].state = "failed"
    /\ raised = [kind |-> "task", task |-> 2]


\* A trigger of the metric reporter outside the sanity check, on rank 0.
ReportHandled ==
    /\ reportCall.phase = "handled"
    /\ reportCall.rank = 0
    /\ ~reportCall.running_sanity_check
\* The reporter names a key that was not logged.
MissingKey ==
    /\ ~Falsy(reportCall.metrics)
    /\ ~(NamedKeys(reportCall.arg) \subseteq DOMAIN reportCall.callback_metrics)
\* C11: a metric reporter whose list names a key, or whose rename mapping
\* names a value, that was not logged fails its trigger outside the sanity
\* check on rank 0 with a lookup error and enqueues nothing: no report of
\* the keys that were found, and no silent skip.
C11_MissingKeyFailsTrigger ==
    (ReportHandled /\ MissingKey) =>
        /\ reportCall.handled.error
        /\ reportCall.handled.puts = <<>>
\* A two-key list whose first key was logged and whose second was not.
C11_Witness ==
    /\ ReportHandled
    /\ reportCall.arg.type = "list"
    /\ Len(reportCall.arg.keys) = 2
    /\ reportCall.arg.keys[1] \in DOMAIN reportCall.callback_metrics
    /\ reportCall.arg.keys[2] \notin DOMAIN reportCall.callback_metrics
    /\ reportCall.handled.error
    /\ reportCall.handled.puts = <<>>


\* The workers that were handed a queue and have entered train_remote.
StartedWithQueue ==
    {w \in DOMAIN wJob :
        /\ taskArgs[w] # <<>>
        /\ taskArgs[w][1].queue
        /\ wJob[w].obj # NoneVal}
\* C12: on every worker that was given a queue the Session is initialized
\* before the training loop starts, with the rank the communication library
\* gave the worker and with that queue, so no callback of the worker ever
\* fires with the Session unset.
C12_SessionBeforeTraining ==
    \A w \in StartedWithQueue :
        /\ session[w] = InitSession(hvdRank[w], taskArgs[w][1].queue)
        /\ ~firedUnset[w]
\* A worker of rank 1 that was given a queue has run an epoch.
C12_Witness ==
    \E w \in StartedWithQueue :
        /\ hvdRank[w] = 1
        /\ epoch[w] >= 1
        /\ session[w].set /\ session[w].rank = 1
        /\ ~firedUnset[w]


\* train() has dispatched the worker entrypoint.
Dispatched == dpc \notin {"constructed", "ready"}
\* train() has ended, by returning or by raising.
TrainEnded == dpc \in {"done", "failed"}
ExpectedWorkers == 1 .. (num_hosts * num_slots)
Started == {w \in DOMAIN wJob : wJob[w].obj # NoneVal}
\* C15: in GPU mode every worker binds to the GPU whose index is its local
\* rank on its host, so two workers of one host never share an index, and
\* the workers of a single host with num_slots slots hold exactly the
\* indices 0 .. num_slots - 1; out of GPU mode no worker touches its
\* binding.
C15_GpuIsLocalRank ==
    /\ \A w \in Started :
          IF wJob[w].on_gpu
          THEN /\ wJob[w].root_gpu = hvdLocalRank[w]
               /\ wJob[w].root_gpu \in 0 .. num_slots - 1
               /\ \A v \in Started \ {w} :
                     HostOf(v) = HostOf(w) =>
                         wJob[v].root_gpu # wJob[w].root_gpu
          ELSE /\ wJob[w].root_gpu = driverJob.root_gpu
               /\ hvdLocalRank[w] = NoneVal
    /\ (driverJob.on_gpu /\ num_hosts = 1 /\ Started = Workers /\ allocated) =>
          {wJob[w].root_gpu : w \in Started} = 0 .. num_slots - 1
\* Two workers of one host in GPU mode, the worker of global rank 0 bound to
\* GPU 1.
C15_Witness ==
    /\ driverJob.on_gpu
    /\ num_hosts = 1 /\ num_slots = 2
    /\ Started = {1, 2}
    /\ \E w \in Started : hvdRank[w] = 0 /\ wJob[w].root_gpu = 1
    /\ {wJob[w].root_gpu : w \in Started} = {0, 1}


\* C16: for every num_workers >= 1 and cpus_per_worker >= 1 the call of
\* get_tune_ddp_resources returns the resources dictionary, with cpu = 1 and
\* extra_cpu = num_workers * cpus_per_worker, and with the entries extra_gpu
\* and gpu exactly when use_gpu is set.
C16_ResourcesReturned ==
    resourcesCall.phase = "returned" =>
        /\ ~resourcesCall.out.none
        /\ {"cpu", "extra_cpu"} \subseteq DOMAIN resourcesCall.out.dict
        /\ resourcesCall.out.dict["cpu"] = 1
        /\ resourcesCall.out.dict["extra_cpu"] =
              resourcesCall.num_workers * resourcesCall.cpus_per_worker
        /\ resourcesCall.use_gpu <=>
              {"extra_gpu", "gpu"} \subseteq DOMAIN resourcesCall.out.dict
        /\ ~resourcesCall.use_gpu =>
              DOMAIN resourcesCall.out.dict = {"cpu", "extra_cpu"}


\* The most actions one run enqueues: two per epoch.
MaxQueued == 2 * MaxEpochs
SomeTaskPending == \E w \in DOMAIN futures : futures[w].state = "pending"
JobInStore == dpc \in {"drain", "wait", "final", "select"}
\* C19: from the moment train() has put the job in the object store until
\* the result is selected the accelerator's trainer reference is None and
\* the driver's job is left as it was; after a successful train() the
\* reference is again the driver's own job object; and every worker works
\* on a copy it fetched, an object of its own, never the driver's.
C19_DetachedWhileRemote ==
    /\ JobInStore =>
          /\ selfTrainer = "None"
          /\ driverJob.weights = InitialWeights
          /\ driverJob.best_model_path = InitialBestPath
    /\ dpc = "done" => selfTrainer = "job"
    /\ driverJob.obj = 0
    /\ \A w \in Started : wJob[w].obj = w /\ wJob[w].obj # driverJob.obj
\* Two workers have trained their own copies, and train() has returned with
\* the driver's job reattached.
C19_Witness ==
    /\ dpc = "done"
    /\ selfTrainer = "job"
    /\ Started = {1, 2}
    /\ wJob[1].weights # wJob[2].weights
    /\ wJob[1].obj # wJob[2].obj


\* C20: when train() fails, on a worker task's failure or on a null result
\* at position 0, the accelerator is left with its trainer reference None
\* and its workers still allocated; only teardown() ever releases them.
C20_FailureLeavesDetached ==
    [][/\ dpc' = "failed" => selfTrainer' = "None"
       /\ (dpc # "failed" /\ dpc' = "failed") => allocated /\ allocated'
       /\ (allocated /\ ~allocated') => Teardown]_vars
\* train() has failed on a null result at position 0; the trainer is
\* detached and the workers are still allocated.
C20_Witness ==
    /\ dpc = "failed"
    /\ raised.kind = "unpack"
    /\ selfTrainer = "None"
    /\ allocated


\* C21: after a successful train() the value returned is the metrics the
\* rank-0 worker returned; with a checkpoint callback configured the
\* driver's best path is the path rank 0 returned, that worker's own best
\* path; with none configured rank 0 returned a null path and the driver's
\* best path is as it was before the call.
C21_MetricsAndBestPathFromRankZero ==
    dpc = "done" =>
        \E w \in RankZeroWorkers :
            /\ returned = <<futures[w].value.metrics>>
            /\ returned = <<TrainResult(w)>>
            /\ IF driverJob.checkpoint_callback
               THEN /\ driverJob.best_model_path = futures[w].value.best_path
                    /\ driverJob.best_model_path = wJob[w].best_model_path
                    /\ driverJob.best_model_path = TrainedBestPath(w)
                    /\ driverJob.best_model_path # InitialBestPath
               ELSE /\ futures[w].value.best_path = NoneVal
                    /\ driverJob.best_model_path = InitialBestPath
\* train() returned after a two-worker run with a checkpoint callback; the
\* driver holds the rank-0 worker's best path.
C21_Witness ==
    /\ dpc = "done"
    /\ N >= 2
    /\ driverJob.checkpoint_callback
    /\ returned # <<>>
    /\ \E w \in RankZeroWorkers :
          driverJob.best_model_path = TrainedBestPath(w)
====
